---- MODULE Spec2Model ----
(***************************************************************************)
(* Hedger numeric core: odds conversion, fee adapters and the              *)
(* cover / equalize solver, modelled over exact rationals.                 *)
(*                                                                         *)
(* A number of the program is a pair <<n, d>>: the rational n/d in lowest  *)
(* terms with d > 0.  A pair with d = 0 stands for a non-finite IEEE       *)
(* value: <<1, 0>> is Infinity, <<-1, 0>> is -Infinity, <<0, 0>> is NaN.   *)
(* Money is in dollars, so one cent is <<1, 100>>.                         *)
(***************************************************************************)
EXTENDS Integers, Sequences, FiniteSets, TLC

VARIABLES positions, call, result, feeCall, feeResult

vars == <<positions, call, result, feeCall, feeResult>>

(***************************************************************************)
(* Bounds of the model.                                                    *)
(***************************************************************************)
MaxPositions == 2
MaxOdds == 200
MaxRawLen == 3

(***************************************************************************)
(* Exact rational arithmetic.                                              *)
(***************************************************************************)
Abs(i) == IF i < 0 THEN -i ELSE i

RECURSIVE GCD(_, _)
GCD(a, b) == IF b = 0 THEN a ELSE GCD(b, a % b)

Norm(n, d) ==
  IF n = 0 THEN <<0, 1>>
  ELSE LET s == IF d < 0 THEN -1 ELSE 1
           g == GCD(Abs(n), Abs(d))
       IN  <<(s * n) \div g, (s * d) \div g>>

R(i) == <<i, 1>>
Zero == <<0, 1>>
Cent == <<1, 100>>
Infinity == <<1, 0>>
NaN == <<0, 0>>

IsFinite(x) == x[2] # 0

RAdd(x, y) == Norm(x[1] * y[2] + y[1] * x[2], x[2] * y[2])
RSub(x, y) == Norm(x[1] * y[2] - y[1] * x[2], x[2] * y[2])
RMul(x, y) == Norm(x[1] * y[1], x[2] * y[2])
RDiv(x, y) == Norm(x[1] * y[2], x[2] * y[1])
RNeg(x) == <<-x[1], x[2]>>
RLt(x, y) == x[1] * y[2] < y[1] * x[2]
RLe(x, y) == x[1] * y[2] <= y[1] * x[2]
RAbs(x) == <<Abs(x[1]), x[2]>>
RMax(x, y) == IF RLt(x, y) THEN y ELSE x
RFloor(x) == x[1] \div x[2]
\* Math.round: the nearest integer, a tie going towards +Infinity.
MathRound(x) == (2 * x[1] + x[2]) \div (2 * x[2])
\* |x - y| < eps
Within(x, y, eps) == RLt(RAbs(RSub(x, y)), eps)

(***************************************************************************)
(* Odds library.  An odds argument is a record [kind, val]: kind "num"     *)
(* carries the integer American odds val; "null" and "NaN" carry no value. *)
(***************************************************************************)
Num(v) == [kind |-> "num", val |-> v]
NullOdds == [kind |-> "null", val |-> 0]
NaNOdds == [kind |-> "NaN", val |-> 0]

\* !odds || !isFinite(odds)
BadOdds(o) == o.kind # "num" \/ o.val = 0

americanToDecimal(odds) ==
  IF odds > 0 THEN RAdd(R(1), Norm(odds, 100))
  ELSE RAdd(R(1), Norm(100, Abs(odds)))

profitPerDollar(american) ==
  IF american > 0 THEN Norm(american, 100) ELSE Norm(100, Abs(american))

(***************************************************************************)
(* Position aggregation: the totals every solver recomputes on each call.  *)
(* A position is [side, stake, profit, fees]; fees is optional and is a    *)
(* sequence of length 0 (absent) or 1.  The solvers never read p.odds.     *)
(***************************************************************************)
FeesOrZero(p) == IF Len(p.fees) = 0 THEN Zero ELSE p.fees[1]

RECURSIVE SumStake(_, _)
SumStake(ps, side) ==
  IF Len(ps) = 0 THEN Zero
  ELSE LET p == ps[Len(ps)]
           rest == SumStake(SubSeq(ps, 1, Len(ps) - 1), side)
       IN  IF p.side = side THEN RAdd(rest, p.stake) ELSE rest

RECURSIVE SumProfit(_, _)
SumProfit(ps, side) ==
  IF Len(ps) = 0 THEN Zero
  ELSE LET p == ps[Len(ps)]
           rest == SumProfit(SubSeq(ps, 1, Len(ps) - 1), side)
       IN  IF p.side = side THEN RAdd(rest, p.profit) ELSE rest

RECURSIVE SumFees(_, _)
SumFees(ps, side) ==
  IF Len(ps) = 0 THEN Zero
  ELSE LET p == ps[Len(ps)]
           rest == SumFees(SubSeq(ps, 1, Len(ps) - 1), side)
       IN  IF p.side = side THEN RAdd(rest, FeesOrZero(p)) ELSE rest

\* Variant of NetA: the stake subtracted is the one placed on side A itself.
NetA_OwnStake(ps) == RSub(RSub(SumProfit(ps, 1), SumStake(ps, 1)), SumFees(ps, 1))

\* netA = profitA - stakeB - feesA
NetA(ps) == RSub(RSub(SumProfit(ps, 1), SumStake(ps, 2)), SumFees(ps, 1))
\* netB = profitB - stakeA - feesB
NetB(ps) == RSub(RSub(SumProfit(ps, 2), SumStake(ps, 1)), SumFees(ps, 2))
NetOf(ps, side) == IF side = 1 THEN NetA(ps) ELSE NetB(ps)

(***************************************************************************)
(* Fee adapter of the solvers: [openFeeRate, settleFeeRate].               *)
(***************************************************************************)
NO_FEES == [openFeeRate |-> Zero, settleFeeRate |-> Zero]

Null == [isNull |-> TRUE]

\* Variant of calculateCover: the stake divides by the decimal odds
\* instead of the profit multiplier.
calculateCover_DecimalDenom(ps, coverSide, odds, feeAdapter) ==
  IF BadOdds(odds) THEN Null
  ELSE
    LET stakeA == SumStake(ps, 1)
        stakeB == SumStake(ps, 2)
        profitA == SumProfit(ps, 1)
        profitB == SumProfit(ps, 2)
        feesA == SumFees(ps, 1)
        feesB == SumFees(ps, 2)
        netA == RSub(RSub(profitA, stakeB), feesA)
        netB == RSub(RSub(profitB, stakeA), feesB)
        decimalOdds == americanToDecimal(odds.val)
        profitMultiplier == RSub(decimalOdds, R(1))
        denominator == RSub(decimalOdds, feeAdapter.settleFeeRate)
        effectiveDenom == RSub(denominator, feeAdapter.openFeeRate)
        net == IF coverSide = 1 THEN netA ELSE netB
        coverStake ==
          IF RLt(net, Zero)
          THEN IF RLt(Zero, effectiveDenom) THEN RDiv(RAbs(net), effectiveDenom) ELSE Zero
          ELSE Zero
        coverProfit == RMul(coverStake, profitMultiplier)
        openFee == RMul(coverStake, feeAdapter.openFeeRate)
        settleFee == RMul(coverProfit, feeAdapter.settleFeeRate)
        netCoverProfit == RSub(coverProfit, settleFee)
        netAAfter ==
          IF coverSide = 1
          THEN RSub(RSub(RSub(RAdd(profitA, netCoverProfit), stakeB), feesA), openFee)
          ELSE RSub(RSub(profitA, RAdd(stakeB, coverStake)), feesA)
        netBAfter ==
          IF coverSide = 1
          THEN RSub(RSub(profitB, RAdd(stakeA, coverStake)), feesB)
          ELSE RSub(RSub(RSub(RAdd(profitB, netCoverProfit), stakeA), feesB), openFee)
    IN  IF RLe(denominator, Zero) THEN Null
        ELSE [isNull |-> FALSE, side |-> coverSide, stake |-> coverStake,
              odds |-> odds.val,
              netAfterCover |-> [sideA |-> netAAfter, sideB |-> netBAfter]]

(***************************************************************************)
(* calculateCover: the stake on coverSide that brings that side's net to   *)
(* zero, with both nets after the cover.                                   *)
(***************************************************************************)
calculateCover(ps, coverSide, odds, feeAdapter) ==
  IF BadOdds(odds) THEN Null
  ELSE
    LET stakeA == SumStake(ps, 1)
        stakeB == SumStake(ps, 2)
        profitA == SumProfit(ps, 1)
        profitB == SumProfit(ps, 2)
        feesA == SumFees(ps, 1)
        feesB == SumFees(ps, 2)
        netA == RSub(RSub(profitA, stakeB), feesA)
        netB == RSub(RSub(profitB, stakeA), feesB)
        decimalOdds == americanToDecimal(odds.val)
        profitMultiplier == RSub(decimalOdds, R(1))
        denominator == RSub(profitMultiplier, feeAdapter.settleFeeRate)
        effectiveDenom == RSub(denominator, feeAdapter.openFeeRate)
        net == IF coverSide = 1 THEN netA ELSE netB
        coverStake ==
          IF RLt(net, Zero)
          THEN IF RLt(Zero, effectiveDenom) THEN RDiv(RAbs(net), effectiveDenom) ELSE Zero
          ELSE Zero
        coverProfit == RMul(coverStake, profitMultiplier)
        openFee == RMul(coverStake, feeAdapter.openFeeRate)
        settleFee == RMul(coverProfit, feeAdapter.settleFeeRate)
        netCoverProfit == RSub(coverProfit, settleFee)
        netAAfter ==
          IF coverSide = 1
          THEN RSub(RSub(RSub(RAdd(profitA, netCoverProfit), stakeB), feesA), openFee)
          ELSE RSub(RSub(profitA, RAdd(stakeB, coverStake)), feesA)
        netBAfter ==
          IF coverSide = 1
          THEN RSub(RSub(profitB, RAdd(stakeA, coverStake)), feesB)
          ELSE RSub(RSub(RSub(RAdd(profitB, netCoverProfit), stakeA), feesB), openFee)
    IN  IF RLe(denominator, Zero) THEN Null
        ELSE [isNull |-> FALSE, side |-> coverSide, stake |-> coverStake,
              odds |-> odds.val,
              netAfterCover |-> [sideA |-> netAAfter, sideB |-> netBAfter]]

\* Variant of calculateEqualization: the denominator omits the
\* 1 that accounts for the other side's net falling by the stake.
calculateEqualization_NoCrossTerm(ps, equalizeSide, odds, feeAdapter) ==
  IF BadOdds(odds) THEN Null
  ELSE
    LET stakeA == SumStake(ps, 1)
        stakeB == SumStake(ps, 2)
        profitA == SumProfit(ps, 1)
        profitB == SumProfit(ps, 2)
        feesA == SumFees(ps, 1)
        feesB == SumFees(ps, 2)
        netA == RSub(RSub(profitA, stakeB), feesA)
        netB == RSub(RSub(profitB, stakeA), feesB)
        decimalOdds == americanToDecimal(odds.val)
        profitMultiplier == RSub(decimalOdds, R(1))
        numerator ==
          IF equalizeSide = 1
          THEN RAdd(RAdd(RSub(RSub(RSub(profitB, stakeA), feesB), profitA), stakeB), feesA)
          ELSE RAdd(RAdd(RSub(RSub(RSub(profitA, stakeB), feesA), profitB), stakeA), feesB)
        effectiveDenom ==
          RSub(RMul(profitMultiplier, RSub(R(1), feeAdapter.settleFeeRate)),
               feeAdapter.openFeeRate)
        raw == IF RLt(Zero, effectiveDenom) THEN RDiv(numerator, effectiveDenom) ELSE Zero
        currentTotal == IF equalizeSide = 1 THEN stakeA ELSE stakeB
        equalizeStake == RMax(Zero, raw)
    IN  IF Within(netA, netB, Cent) THEN Null
        ELSE [isNull |-> FALSE, side |-> equalizeSide, stake |-> equalizeStake,
              targetTotal |-> RAdd(currentTotal, equalizeStake), odds |-> odds.val]

\* Variant of calculateEqualization: the decimal odds stand in
\* for the profit multiplier in the denominator.
calculateEqualization_DecimalMultiplier(ps, equalizeSide, odds, feeAdapter) ==
  IF BadOdds(odds) THEN Null
  ELSE
    LET stakeA == SumStake(ps, 1)
        stakeB == SumStake(ps, 2)
        profitA == SumProfit(ps, 1)
        profitB == SumProfit(ps, 2)
        feesA == SumFees(ps, 1)
        feesB == SumFees(ps, 2)
        netA == RSub(RSub(profitA, stakeB), feesA)
        netB == RSub(RSub(profitB, stakeA), feesB)
        decimalOdds == americanToDecimal(odds.val)
        profitMultiplier == RSub(decimalOdds, R(1))
        numerator ==
          IF equalizeSide = 1
          THEN RAdd(RAdd(RSub(RSub(RSub(profitB, stakeA), feesB), profitA), stakeB), feesA)
          ELSE RAdd(RAdd(RSub(RSub(RSub(profitA, stakeB), feesA), profitB), stakeA), feesB)
        effectiveDenom ==
          RSub(RAdd(R(1), RMul(decimalOdds, RSub(R(1), feeAdapter.settleFeeRate))),
               feeAdapter.openFeeRate)
        raw == IF RLt(Zero, effectiveDenom) THEN RDiv(numerator, effectiveDenom) ELSE Zero
        currentTotal == IF equalizeSide = 1 THEN stakeA ELSE stakeB
        equalizeStake == RMax(Zero, raw)
    IN  IF Within(netA, netB, Cent) THEN Null
        ELSE [isNull |-> FALSE, side |-> equalizeSide, stake |-> equalizeStake,
              targetTotal |-> RAdd(currentTotal, equalizeStake), odds |-> odds.val]

(***************************************************************************)
(* calculateEqualization: the stake on equalizeSide that makes both nets   *)
(* equal; null when they already are within a cent.                        *)
(***************************************************************************)
\* Variant of calculateEqualization: the stake is not clamped at zero.
calculateEqualization_NoClamp(ps, equalizeSide, odds, feeAdapter) ==
  IF BadOdds(odds) THEN Null
  ELSE
    LET netA == NetA(ps)
        netB == NetB(ps)
        profitMultiplier == RSub(americanToDecimal(odds.val), R(1))
        numerator == IF equalizeSide = 1 THEN RSub(netB, netA) ELSE RSub(netA, netB)
        effectiveDenom ==
          RSub(RAdd(R(1), RMul(profitMultiplier, RSub(R(1), feeAdapter.settleFeeRate))),
               feeAdapter.openFeeRate)
        equalizeStake ==
          IF RLt(Zero, effectiveDenom) THEN RDiv(numerator, effectiveDenom) ELSE Zero
        currentTotal == SumStake(ps, equalizeSide)
    IN  IF Within(netA, netB, Cent) THEN Null
        ELSE [isNull |-> FALSE, side |-> equalizeSide, stake |-> equalizeStake,
              targetTotal |-> RAdd(currentTotal, equalizeStake), odds |-> odds.val]

calculateEqualization(ps, equalizeSide, odds, feeAdapter) ==
  IF BadOdds(odds) THEN Null
  ELSE
    LET stakeA == SumStake(ps, 1)
        stakeB == SumStake(ps, 2)
        profitA == SumProfit(ps, 1)
        profitB == SumProfit(ps, 2)
        feesA == SumFees(ps, 1)
        feesB == SumFees(ps, 2)
        netA == RSub(RSub(profitA, stakeB), feesA)
        netB == RSub(RSub(profitB, stakeA), feesB)
        decimalOdds == americanToDecimal(odds.val)
        profitMultiplier == RSub(decimalOdds, R(1))
        numerator ==
          IF equalizeSide = 1
          THEN RAdd(RAdd(RSub(RSub(RSub(profitB, stakeA), feesB), profitA), stakeB), feesA)
          ELSE RAdd(RAdd(RSub(RSub(RSub(profitA, stakeB), feesA), profitB), stakeA), feesB)
        effectiveDenom ==
          RSub(RAdd(R(1), RMul(profitMultiplier, RSub(R(1), feeAdapter.settleFeeRate))),
               feeAdapter.openFeeRate)
        raw == IF RLt(Zero, effectiveDenom) THEN RDiv(numerator, effectiveDenom) ELSE Zero
        currentTotal == IF equalizeSide = 1 THEN stakeA ELSE stakeB
        equalizeStake == RMax(Zero, raw)
    IN  IF Within(netA, netB, Cent) THEN Null
        ELSE [isNull |-> FALSE, side |-> equalizeSide, stake |-> equalizeStake,
              targetTotal |-> RAdd(currentTotal, equalizeStake), odds |-> odds.val]

(***************************************************************************)
(* autoEqualize: picks the side to bet on, then calculateEqualization.     *)
(***************************************************************************)
autoEqualize(ps, oddsA, oddsB, feeAdapter) ==
  LET stakeA == SumStake(ps, 1)
      stakeB == SumStake(ps, 2)
      profitA == SumProfit(ps, 1)
      profitB == SumProfit(ps, 2)
      feesA == SumFees(ps, 1)
      feesB == SumFees(ps, 2)
      netA == RSub(RSub(profitA, stakeB), feesA)
      netB == RSub(RSub(profitB, stakeA), feesB)
      betSide ==
        IF RLt(Zero, stakeA) /\ stakeB = Zero THEN 2
        ELSE IF RLt(Zero, stakeB) /\ stakeA = Zero THEN 1
        ELSE IF RLt(netB, netA) THEN 2
        ELSE 1
      betOdds == IF betSide = 2 THEN oddsB ELSE oddsA
  IN  IF Within(netA, netB, Cent) THEN Null
      ELSE IF BadOdds(betOdds) THEN Null
      ELSE calculateEqualization(ps, betSide, betOdds, feeAdapter)

(***************************************************************************)
(* calculateTargetProfit: the stake on the weaker side (lower net, a tie   *)
(* goes to side B) that brings its net to targetProfit.                    *)
(***************************************************************************)
\* Variant of calculateTargetProfit: the decimal odds stand in for the
\* profit multiplier in the denominator.
calculateTargetProfit_DecimalDenom(ps, targetProfit, oddsA, oddsB, feeAdapter) ==
  LET netA == NetA(ps)
      netB == NetB(ps)
      targetSide == IF RLt(netA, netB) THEN 1 ELSE 2
      targetOdds == IF RLt(netA, netB) THEN oddsA ELSE oddsB
      currentNet == IF RLt(netA, netB) THEN netA ELSE netB
  IN  IF BadOdds(targetOdds) THEN Null
      ELSE
        LET denominator ==
              RSub(RSub(americanToDecimal(targetOdds.val), feeAdapter.settleFeeRate),
                   feeAdapter.openFeeRate)
        IN  IF RLe(denominator, Zero) THEN Null
            ELSE
              LET targetStake == RDiv(RSub(targetProfit, currentNet), denominator)
              IN  IF RLt(targetStake, Zero) THEN Null
                  ELSE [isNull |-> FALSE, side |-> targetSide, stake |-> targetStake,
                        targetProfit |-> targetProfit, odds |-> targetOdds.val]

\* Variant of calculateTargetProfit: an exact tie selects side A.
calculateTargetProfit_TieToA(ps, targetProfit, oddsA, oddsB, feeAdapter) ==
  LET netA == NetA(ps)
      netB == NetB(ps)
      targetSide == IF RLe(netA, netB) THEN 1 ELSE 2
      targetOdds == IF RLe(netA, netB) THEN oddsA ELSE oddsB
      currentNet == IF RLe(netA, netB) THEN netA ELSE netB
  IN  IF BadOdds(targetOdds) THEN Null
      ELSE
        LET profitMultiplier == RSub(americanToDecimal(targetOdds.val), R(1))
            denominator ==
              RSub(RSub(profitMultiplier, feeAdapter.settleFeeRate), feeAdapter.openFeeRate)
        IN  IF RLe(denominator, Zero) THEN Null
            ELSE
              LET targetStake == RDiv(RSub(targetProfit, currentNet), denominator)
              IN  IF RLt(targetStake, Zero) THEN Null
                  ELSE [isNull |-> FALSE, side |-> targetSide, stake |-> targetStake,
                        targetProfit |-> targetProfit, odds |-> targetOdds.val]

\* Variant of calculateTargetProfit: a stake of zero is "no bet needed" too.
calculateTargetProfit_NullAtZero(ps, targetProfit, oddsA, oddsB, feeAdapter) ==
  LET netA == NetA(ps)
      netB == NetB(ps)
      targetSide == IF RLt(netA, netB) THEN 1 ELSE 2
      targetOdds == IF RLt(netA, netB) THEN oddsA ELSE oddsB
      currentNet == IF RLt(netA, netB) THEN netA ELSE netB
  IN  IF BadOdds(targetOdds) THEN Null
      ELSE
        LET profitMultiplier == RSub(americanToDecimal(targetOdds.val), R(1))
            denominator ==
              RSub(RSub(profitMultiplier, feeAdapter.settleFeeRate), feeAdapter.openFeeRate)
        IN  IF RLe(denominator, Zero) THEN Null
            ELSE
              LET targetStake == RDiv(RSub(targetProfit, currentNet), denominator)
              IN  IF RLe(targetStake, Zero) THEN Null
                  ELSE [isNull |-> FALSE, side |-> targetSide, stake |-> targetStake,
                        targetProfit |-> targetProfit, odds |-> targetOdds.val]

calculateTargetProfit(ps, targetProfit, oddsA, oddsB, feeAdapter) ==
  LET stakeA == SumStake(ps, 1)
      stakeB == SumStake(ps, 2)
      profitA == SumProfit(ps, 1)
      profitB == SumProfit(ps, 2)
      feesA == SumFees(ps, 1)
      feesB == SumFees(ps, 2)
      netA == RSub(RSub(profitA, stakeB), feesA)
      netB == RSub(RSub(profitB, stakeA), feesB)
      targetSide == IF RLt(netA, netB) THEN 1 ELSE 2
      targetOdds == IF RLt(netA, netB) THEN oddsA ELSE oddsB
      currentNet == IF RLt(netA, netB) THEN netA ELSE netB
  IN  IF BadOdds(targetOdds) THEN Null
      ELSE
        LET decimalOdds == americanToDecimal(targetOdds.val)
            profitMultiplier == RSub(decimalOdds, R(1))
            denominator ==
              RSub(RSub(profitMultiplier, feeAdapter.settleFeeRate), feeAdapter.openFeeRate)
        IN  IF RLe(denominator, Zero) THEN Null
            ELSE
              LET targetStake == RDiv(RSub(targetProfit, currentNet), denominator)
              IN  IF RLt(targetStake, Zero) THEN Null
                  ELSE [isNull |-> FALSE, side |-> targetSide, stake |-> targetStake,
                        targetProfit |-> targetProfit, odds |-> targetOdds.val]

(***************************************************************************)
(* calculateCoverage: the stake on the weaker side that brings its net to  *)
(* -(stake on the other side) * (1 - coveragePercent).                     *)
(***************************************************************************)
\* Variant of calculateCoverage: the losing stake is the one placed on the
\* selected side itself.
calculateCoverage_OwnStake(ps, coveragePercent, oddsA, oddsB, feeAdapter) ==
  IF RLt(coveragePercent, Zero) \/ RLt(R(1), coveragePercent) THEN Null
  ELSE
    LET netA == NetA(ps)
        netB == NetB(ps)
        targetSide == IF RLt(netA, netB) THEN 1 ELSE 2
        targetOdds == IF RLt(netA, netB) THEN oddsA ELSE oddsB
        losingSideStake == IF RLt(netA, netB) THEN SumStake(ps, 1) ELSE SumStake(ps, 2)
        targetNet == RMul(RNeg(losingSideStake), RSub(R(1), coveragePercent))
    IN  IF BadOdds(targetOdds) THEN Null
        ELSE
          LET profitMultiplier == RSub(americanToDecimal(targetOdds.val), R(1))
              denominator ==
                RSub(RSub(profitMultiplier, feeAdapter.settleFeeRate), feeAdapter.openFeeRate)
          IN  IF RLe(denominator, Zero) THEN Null
              ELSE
                LET currentNet == IF targetSide = 1 THEN netA ELSE netB
                    coverageStake == RDiv(RSub(targetNet, currentNet), denominator)
                IN  IF RLt(coverageStake, Zero) THEN Null
                    ELSE [isNull |-> FALSE, side |-> targetSide, stake |-> coverageStake,
                          coveragePercent |-> coveragePercent, odds |-> targetOdds.val]

calculateCoverage(ps, coveragePercent, oddsA, oddsB, feeAdapter) ==
  IF RLt(coveragePercent, Zero) \/ RLt(R(1), coveragePercent) THEN Null
  ELSE
    LET stakeA == SumStake(ps, 1)
        stakeB == SumStake(ps, 2)
        profitA == SumProfit(ps, 1)
        profitB == SumProfit(ps, 2)
        feesA == SumFees(ps, 1)
        feesB == SumFees(ps, 2)
        netA == RSub(RSub(profitA, stakeB), feesA)
        netB == RSub(RSub(profitB, stakeA), feesB)
        targetSide == IF RLt(netA, netB) THEN 1 ELSE 2
        targetOdds == IF RLt(netA, netB) THEN oddsA ELSE oddsB
        losingSideStake == IF RLt(netA, netB) THEN stakeB ELSE stakeA
        targetNet == RMul(RNeg(losingSideStake), RSub(R(1), coveragePercent))
    IN  IF BadOdds(targetOdds) THEN Null
        ELSE
          LET decimalOdds == americanToDecimal(targetOdds.val)
              profitMultiplier == RSub(decimalOdds, R(1))
              denominator ==
                RSub(RSub(profitMultiplier, feeAdapter.settleFeeRate), feeAdapter.openFeeRate)
          IN  IF RLe(denominator, Zero) THEN Null
              ELSE
                LET currentNet == IF targetSide = 1 THEN netA ELSE netB
                    coverageStake == RDiv(RSub(targetNet, currentNet), denominator)
                IN  IF RLt(coverageStake, Zero) THEN Null
                    ELSE [isNull |-> FALSE, side |-> targetSide, stake |-> coverageStake,
                          coveragePercent |-> coveragePercent, odds |-> targetOdds.val]

(***************************************************************************)
(* IEEE arithmetic where a non-finite value can arise (a division by a     *)
(* zero NO price): the finite cases are the exact rational operations.     *)
(***************************************************************************)
Sign(x) == IF x[1] > 0 THEN 1 ELSE IF x[1] < 0 THEN -1 ELSE 0
IsNaN(x) == x[2] = 0 /\ x[1] = 0

FDiv(x, y) ==
  IF ~IsFinite(x) \/ ~IsFinite(y) THEN NaN
  ELSE IF y[1] = 0 THEN <<Sign(x), 0>>
  ELSE RDiv(x, y)

FMul(x, y) ==
  IF IsNaN(x) \/ IsNaN(y) THEN NaN
  ELSE IF ~IsFinite(x) \/ ~IsFinite(y) THEN <<Sign(x) * Sign(y), 0>>
  ELSE RMul(x, y)

FAdd(x, y) ==
  IF IsNaN(x) \/ IsNaN(y) THEN NaN
  ELSE IF ~IsFinite(x) /\ ~IsFinite(y) THEN (IF x = y THEN x ELSE NaN)
  ELSE IF ~IsFinite(x) THEN x
  ELSE IF ~IsFinite(y) THEN y
  ELSE RAdd(x, y)

FSub(x, y) == FAdd(x, <<-y[1], y[2]>>)

\* Math.floor
FFloor(x) == IF IsFinite(x) THEN R(RFloor(x)) ELSE x

(***************************************************************************)
(* Fee library.                                                            *)
(***************************************************************************)
\* Math.round(x * 100) / 100
r2(x) == IF IsFinite(x) THEN Norm(MathRound(RMul(x, R(100))), 100) ELSE x

DEFAULT_KALSHI_FEES == [openFee |-> <<1, 100>>, settleFee |-> <<1, 50>>]

Threw == [threw |-> TRUE]

\* Variant of kalshiLedger: the profit forgets the open fee.
kalshiLedger_NoOpenFeeInProfit(stake, price, fOpen, fSettle) ==
  IF RLe(price, Zero) \/ RLe(R(1), price) THEN Threw
  ELSE
    LET contracts == R(RFloor(RDiv(stake, price)))
        cost == r2(RMul(contracts, price))
        openFee == r2(RMul(cost, fOpen))
        settleFee == r2(RMul(contracts, fSettle))
        netPayout == r2(RSub(contracts, settleFee))
        profit == r2(RSub(netPayout, cost))
    IN  [threw |-> FALSE, contracts |-> contracts, cost |-> cost,
         openFee |-> openFee, settleFee |-> settleFee,
         netPayout |-> netPayout, profit |-> profit]

kalshiLedger(stake, price, fOpen, fSettle) ==
  IF RLe(price, Zero) \/ RLe(R(1), price) THEN Threw
  ELSE
    LET contracts == R(RFloor(RDiv(stake, price)))
        cost == r2(RMul(contracts, price))
        openFee == r2(RMul(cost, fOpen))
        settleFee == r2(RMul(contracts, fSettle))
        netPayout == r2(RSub(contracts, settleFee))
        profit == r2(RSub(netPayout, RAdd(cost, openFee)))
    IN  [threw |-> FALSE, contracts |-> contracts, cost |-> cost,
         openFee |-> openFee, settleFee |-> settleFee,
         netPayout |-> netPayout, profit |-> profit]

\* The effective American odds of a contract after fees, on a stake of 100.
kalshiEffectiveOdds(price, fees) ==
  LET stake == R(100)
      ledger == kalshiLedger(stake, price, fees.openFee, fees.settleFee)
  IN  IF ledger.threw THEN Threw
      ELSE
        LET totalInvested == RAdd(ledger.cost, ledger.openFee)
            profitRatio == FDiv(ledger.profit, totalInvested)
        IN  IF IsFinite(profitRatio) /\ RLe(profitRatio, Zero) THEN Threw
            ELSE IF ~IsFinite(profitRatio) THEN [threw |-> FALSE, value |-> profitRatio]
            ELSE IF RLe(R(1), profitRatio)
                 THEN [threw |-> FALSE, value |-> R(MathRound(RMul(profitRatio, R(100))))]
                 ELSE [threw |-> FALSE,
                       value |-> R(MathRound(RDiv(R(-100), profitRatio)))]

applyNoFees(stake, profitBeforeFees) ==
  [threw |-> FALSE,
   payout |-> r2(RAdd(stake, profitBeforeFees)),
   profitBeforeFees |-> r2(profitBeforeFees),
   feesBreakdown |-> [total |-> Zero],
   netProfit |-> r2(profitBeforeFees)]

(***************************************************************************)
(* A sportsbook marker is [present, chars]: an optional string, held as    *)
(* the sequence of its characters.                                         *)
(***************************************************************************)
Absent == [present |-> FALSE, chars |-> <<>>]
Str(cs) == [present |-> TRUE, chars |-> cs]

IsSpace(c) == c \in {" ", "\t"}

RECURSIVE TrimStart(_)
TrimStart(cs) ==
  IF Len(cs) > 0 /\ IsSpace(cs[1]) THEN TrimStart(Tail(cs)) ELSE cs

RECURSIVE TrimEnd(_)
TrimEnd(cs) ==
  IF Len(cs) > 0 /\ IsSpace(cs[Len(cs)]) THEN TrimEnd(SubSeq(cs, 1, Len(cs) - 1)) ELSE cs

\* String.prototype.trim
Trim(cs) == TrimEnd(TrimStart(cs))

UpperOf(c) ==
  CASE c = "p" -> "P"
    [] c = "x" -> "X"
    [] c = "d" -> "D"
    [] c = "k" -> "K"
    [] OTHER -> c

\* String.prototype.toUpperCase
ToUpperCase(cs) == [i \in 1..Len(cs) |-> UpperOf(cs[i])]

\* Variant of applyProphetXFee: the marker is compared without trimming.
applyProphetXFee_NoTrim(stake, profitBeforeFees, sportsbook) ==
  IF ~sportsbook.present \/ Len(sportsbook.chars) = 0
  THEN applyNoFees(stake, profitBeforeFees)
  ELSE
    LET book == ToUpperCase(sportsbook.chars)
        winFee == r2(RMul(profitBeforeFees, <<1, 100>>))
        netProfit == r2(RSub(profitBeforeFees, winFee))
    IN  IF book = <<"P", "X", "!">> /\ RLt(Zero, profitBeforeFees)
        THEN [threw |-> FALSE,
              payout |-> r2(RAdd(stake, netProfit)),
              profitBeforeFees |-> r2(profitBeforeFees),
              feesBreakdown |-> [winFee |-> winFee, total |-> winFee],
              netProfit |-> netProfit]
        ELSE applyNoFees(stake, profitBeforeFees)

applyProphetXFee(stake, profitBeforeFees, sportsbook) ==
  IF ~sportsbook.present \/ Len(sportsbook.chars) = 0
  THEN applyNoFees(stake, profitBeforeFees)
  ELSE
    LET book == ToUpperCase(Trim(sportsbook.chars))
        winFee == r2(RMul(profitBeforeFees, <<1, 100>>))
        netProfit == r2(RSub(profitBeforeFees, winFee))
    IN  IF book = <<"P", "X", "!">> /\ RLt(Zero, profitBeforeFees)
        THEN [threw |-> FALSE,
              payout |-> r2(RAdd(stake, netProfit)),
              profitBeforeFees |-> r2(profitBeforeFees),
              feesBreakdown |-> [winFee |-> winFee, total |-> winFee],
              netProfit |-> netProfit]
        ELSE applyNoFees(stake, profitBeforeFees)

\* Variant of applyKalshiYesFees: the payout is the stake plus the net profit.
applyKalshiYesFees_StakePayout(stake, price, fOpen, fSettle) ==
  LET ledger == kalshiLedger(stake, price, fOpen, fSettle)
  IN  IF ledger.threw THEN Threw
      ELSE [threw |-> FALSE,
            payout |-> r2(RAdd(stake, ledger.profit)),
            profitBeforeFees |-> r2(RSub(ledger.contracts, ledger.cost)),
            feesBreakdown |-> [openFee |-> ledger.openFee,
                               settleFee |-> ledger.settleFee,
                               total |-> r2(RAdd(ledger.openFee, ledger.settleFee))],
            netProfit |-> ledger.profit]

applyKalshiYesFees(stake, price, fOpen, fSettle) ==
  LET ledger == kalshiLedger(stake, price, fOpen, fSettle)
  IN  IF ledger.threw THEN Threw
      ELSE [threw |-> FALSE,
            payout |-> ledger.netPayout,
            profitBeforeFees |-> r2(RSub(ledger.contracts, ledger.cost)),
            feesBreakdown |-> [openFee |-> ledger.openFee,
                               settleFee |-> ledger.settleFee,
                               total |-> r2(RAdd(ledger.openFee, ledger.settleFee))],
            netProfit |-> ledger.profit]

applyKalshiNoFees(stake, price, fOpen, fSettle) ==
  LET noPrice == RSub(R(1), price)
      contracts == FFloor(FDiv(stake, noPrice))
      cost == r2(FMul(contracts, noPrice))
      openFee == r2(FMul(cost, fOpen))
      grossProfit == r2(FMul(price, contracts))
      settleFee == r2(FMul(grossProfit, fSettle))
      netPayout == r2(FSub(grossProfit, settleFee))
      netProfit == r2(FSub(netPayout, FAdd(cost, openFee)))
  IN  [threw |-> FALSE,
       payout |-> netPayout,
       profitBeforeFees |-> grossProfit,
       feesBreakdown |-> [openFee |-> openFee, settleFee |-> settleFee,
                          total |-> r2(FAdd(openFee, settleFee))],
       netProfit |-> netProfit]

\* Variant of applyCustomFeesUnified: the fees are added to the profit.
applyCustomFeesUnified_FeesAdded(stake, profitBeforeFees, openFeePct, winFeePct) ==
  LET openFee == r2(RMul(stake, openFeePct))
      winFee == IF RLt(Zero, profitBeforeFees)
                THEN r2(RMul(profitBeforeFees, winFeePct)) ELSE Zero
      totalFees == r2(RAdd(openFee, winFee))
      netProfit == r2(RAdd(profitBeforeFees, totalFees))
  IN  [threw |-> FALSE,
       payout |-> r2(RAdd(stake, netProfit)),
       profitBeforeFees |-> r2(profitBeforeFees),
       feesBreakdown |-> [openFee |-> openFee, winFee |-> winFee, total |-> totalFees],
       netProfit |-> netProfit]

applyCustomFeesUnified(stake, profitBeforeFees, openFeePct, winFeePct) ==
  LET openFee == r2(RMul(stake, openFeePct))
      winFee == IF RLt(Zero, profitBeforeFees)
                THEN r2(RMul(profitBeforeFees, winFeePct)) ELSE Zero
      totalFees == r2(RAdd(openFee, winFee))
      netProfit == r2(RSub(profitBeforeFees, totalFees))
  IN  [threw |-> FALSE,
       payout |-> r2(RAdd(stake, netProfit)),
       profitBeforeFees |-> r2(profitBeforeFees),
       feesBreakdown |-> [openFee |-> openFee, winFee |-> winFee, total |-> totalFees],
       netProfit |-> netProfit]

(***************************************************************************)
(* Odds library, whole functions: a number argument is a rational, the     *)
(* outcome is Threw or Returned(value).                                    *)
(***************************************************************************)
Returned(v) == [threw |-> FALSE, value |-> v]

\* americanToDecimal with its domain check (odds === 0 || !isFinite(odds)).
americanToDecimalChecked(odds) ==
  IF odds = Zero \/ ~IsFinite(odds) THEN Threw
  ELSE Returned(americanToDecimal(odds[1]))

\* Variant of decimalToAmerican: no special case for even money.
decimalToAmerican_NoEvenMoney(decimal) ==
  IF ~IsFinite(decimal) \/ RLe(decimal, R(1)) THEN Threw
  ELSE IF RLt(R(2), decimal)
       THEN Returned(MathRound(RMul(RSub(decimal, R(1)), R(100))))
       ELSE Returned(MathRound(RDiv(R(-100), RSub(decimal, R(1)))))

decimalToAmerican(decimal) ==
  IF ~IsFinite(decimal) \/ RLe(decimal, R(1)) THEN Threw
  ELSE IF Within(decimal, R(2), <<1, 1000000>>) THEN Returned(100)
  ELSE IF RLt(R(2), decimal)
       THEN Returned(MathRound(RMul(RSub(decimal, R(1)), R(100))))
       ELSE Returned(MathRound(RDiv(R(-100), RSub(decimal, R(1)))))

impliedProbability(american) ==
  IF ~IsFinite(american) THEN Threw
  ELSE IF RLe(R(100), american)
       THEN Returned(RDiv(R(100), RAdd(american, R(100))))
       ELSE Returned(RDiv(RAbs(american), RAdd(RAbs(american), R(100))))

\* profitPerDollar with its domain check (!isFinite(american)).
profitPerDollarChecked(american) ==
  IF ~IsFinite(american) THEN Threw
  ELSE Returned(profitPerDollar(american[1]))

(***************************************************************************)
(* parseOdds.  The raw input is an optional string held as the sequence of *)
(* its characters; "U+2212", "U+2013" and "U+2014" stand for the Unicode   *)
(* minus sign, en dash and em dash.  The outcome is Null or Parsed(n).     *)
(* Inputs hold no "x" (parseInt's hexadecimal prefix) and no "Infinity".   *)
(***************************************************************************)
Parsed(n) == [isNull |-> FALSE, value |-> n]

LowerOf(c) ==
  CASE c = "E" -> "e"
    [] c = "V" -> "v"
    [] c = "N" -> "n"
    [] c = "C" -> "c"
    [] c = "K" -> "k"
    [] OTHER -> c

\* String.prototype.toLowerCase
ToLowerCase(cs) == [i \in 1..Len(cs) |-> LowerOf(cs[i])]

\* t.replace(/[−–—]/g, '-')
ReplaceDashes(cs) ==
  [i \in 1..Len(cs) |-> IF cs[i] \in {"U+2212", "U+2013", "U+2014"} THEN "-" ELSE cs[i]]

\* t.replace(/\s+/g, "")
RemoveSpaces(cs) == SelectSeq(cs, LAMBDA c : ~IsSpace(c))

Includes(cs, c) == \E i \in 1..Len(cs) : cs[i] = c
EndsWith(cs, c) == Len(cs) > 0 /\ cs[Len(cs)] = c
StartsWith(cs, c) == Len(cs) > 0 /\ cs[1] = c
\* t.slice(0, -1)
DropLast(cs) == SubSeq(cs, 1, Len(cs) - 1)

IsDigit(c) == c \in {"0", "1", "2", "3", "4", "5", "6", "7", "8", "9"}
DigitVal(c) ==
  CASE c = "0" -> 0 [] c = "1" -> 1 [] c = "2" -> 2 [] c = "3" -> 3 [] c = "4" -> 4
    [] c = "5" -> 5 [] c = "6" -> 6 [] c = "7" -> 7 [] c = "8" -> 8 [] c = "9" -> 9

\* The number of consecutive digits of cs from index i on.
RECURSIVE DigitRun(_, _)
DigitRun(cs, i) ==
  IF i <= Len(cs) /\ IsDigit(cs[i]) THEN 1 + DigitRun(cs, i + 1) ELSE 0

\* The decimal value of the n digits of cs from index i on.
RECURSIVE DigitsValue(_, _, _)
DigitsValue(cs, i, n) ==
  IF n = 0 THEN 0 ELSE DigitsValue(cs, i, n - 1) * 10 + DigitVal(cs[i + n - 1])

RECURSIVE Pow10(_)
Pow10(n) == IF n = 0 THEN 1 ELSE 10 * Pow10(n - 1)

\* parseFloat: the longest prefix that is a decimal literal (sign, digits,
\* fraction, exponent), NaN when there is none.
\* F(x), with x evaluated once before F is applied.
Apply(F(_), x) == CHOOSE r \in {F(v) : v \in {x}} : TRUE

ParseFloat(cs) ==
  LET FromStart(s) ==
        LET signed == Len(s) > 0 /\ s[1] \in {"+", "-"}
            i0 == IF signed THEN 2 ELSE 1
            FromInt(nInt) ==
              LET dotAt == i0 + nInt
                  hasDot == dotAt <= Len(s) /\ s[dotAt] = "."
                  FromFrac(nFrac) ==
                    LET eAt == IF hasDot THEN dotAt + 1 + nFrac ELSE dotAt
                        hasE == eAt <= Len(s) /\ s[eAt] \in {"e", "E"}
                        eSigned == hasE /\ eAt + 1 <= Len(s) /\ s[eAt + 1] \in {"+", "-"}
                        x0 == IF eSigned THEN eAt + 2 ELSE eAt + 1
                        FromExp(nExp) ==
                          LET mant ==
                                Norm(DigitsValue(s, i0, nInt) * Pow10(nFrac)
                                       + DigitsValue(s, dotAt + 1, nFrac), Pow10(nFrac))
                              Scale(expAbs) ==
                                IF nExp > 0 /\ eSigned /\ s[eAt + 1] = "-"
                                THEN RDiv(mant, R(Pow10(expAbs)))
                                ELSE RMul(mant, R(Pow10(expAbs)))
                              Signed(scaled) ==
                                IF nInt = 0 /\ nFrac = 0 THEN NaN
                                ELSE IF signed /\ s[1] = "-" THEN RNeg(scaled) ELSE scaled
                          IN  Apply(Signed, Apply(Scale, DigitsValue(s, x0, nExp)))
                    IN  Apply(FromExp, IF hasE THEN DigitRun(s, x0) ELSE 0)
            IN  Apply(FromFrac, IF hasDot THEN DigitRun(s, dotAt + 1) ELSE 0)
        IN  Apply(FromInt, DigitRun(s, i0))
  IN  Apply(FromStart, TrimStart(cs))

\* parseInt, radix 10: sign and the longest run of digits, NaN when none.
ParseInt(cs) ==
  LET s == TrimStart(cs)
      signed == Len(s) > 0 /\ s[1] \in {"+", "-"}
      i0 == IF signed THEN 2 ELSE 1
      n == DigitRun(s, i0)
      v == DigitsValue(s, i0, n)
  IN  IF n = 0 THEN NaN
      ELSE IF signed /\ s[1] = "-" THEN R(-v) ELSE R(v)

\* /\d+\.\d+[ck]/.test(t)
DecimalCentsPattern(t) ==
  \E i \in 1..Len(t) :
    /\ IsDigit(t[i])
    /\ i + 1 <= Len(t)
    /\ t[i + 1] = "."
    /\ LET n == DigitRun(t, i + 2)
       IN  n >= 1 /\ i + 2 + n <= Len(t) /\ t[i + 2 + n] \in {"c", "k"}

\* /\d+%[ck]/.test(t)
PercentCentsPattern(t) ==
  \E i \in 1..Len(t) :
    /\ IsDigit(t[i])
    /\ i + 2 <= Len(t)
    /\ t[i + 1] = "%"
    /\ t[i + 2] \in {"c", "k"}

\* A win probability p in (0, 1) as American odds, rounded.
ProbabilityToAmerican(p) ==
  IF RLt(<<1, 2>>, p)
  THEN MathRound(RMul(RNeg(RDiv(p, RSub(R(1), p))), R(100)))
  ELSE MathRound(RMul(RDiv(RSub(R(1), p), p), R(100)))

\* Steps 1 and 2: a percentage or Kalshi cents, the marker already cut off.
ParsePercent(digits) ==
  LET Convert(percent) ==
        IF ~IsFinite(percent) \/ RLe(percent, Zero) \/ RLe(R(100), percent) THEN Null
        ELSE IF percent = R(50) THEN Parsed(100)
        ELSE Parsed(Apply(ProbabilityToAmerican, RDiv(percent, R(100))))
  IN  Apply(Convert, ParseFloat(digits))

\* The number of "/" in t: t.split('/') has one part more.
Slashes(t) == Cardinality({i \in 1..Len(t) : t[i] = "/"})

\* Decimal odds other than 2 as American odds, rounded.
DecimalToRounded(decimal) ==
  IF RLt(R(2), decimal)
  THEN Parsed(MathRound(RMul(RSub(decimal, R(1)), R(100))))
  ELSE Parsed(MathRound(RDiv(R(-100), RSub(decimal, R(1)))))

\* Step 3: fractional odds.
ParseFraction(t) ==
  IF Slashes(t) # 1 THEN Null
  ELSE
    LET at == CHOOSE i \in 1..Len(t) : t[i] = "/"
        FromDecimal(decimal) ==
          IF decimal = R(2) THEN Parsed(100) ELSE DecimalToRounded(decimal)
        FromDen(num, den) ==
          IF ~IsFinite(num) \/ ~IsFinite(den) \/ RLe(num, Zero) \/ RLe(den, Zero) THEN Null
          ELSE Apply(FromDecimal, RAdd(R(1), RDiv(num, den)))
        FromNum(num) ==
          LET WithDen(den) == FromDen(num, den)
          IN  Apply(WithDen, ParseFloat(SubSeq(t, at + 1, Len(t))))
    IN  Apply(FromNum, ParseFloat(SubSeq(t, 1, at - 1)))

\* Step 4: a Kalshi price below 1 or decimal odds above 1.
ParseDecimal(t) ==
  IF StartsWith(t, "-") THEN Null
  ELSE
    LET Convert(value) ==
          IF ~IsFinite(value) \/ RLe(value, Zero) THEN Null
          ELSE IF RLt(value, R(1))
               THEN IF Within(value, <<1, 2>>, <<1, 1000000>>) THEN Parsed(100)
                    ELSE Parsed(ProbabilityToAmerican(value))
          ELSE IF value = R(1) THEN Null
          ELSE IF Within(value, R(2), <<1, 1000000>>) THEN Parsed(100)
          ELSE DecimalToRounded(value)
    IN  Apply(Convert, ParseFloat(t))

\* Step 6: explicitly signed American odds.
ParseSigned(t) ==
  LET Check(american) ==
        IF ~IsFinite(american) THEN Null
        ELSE IF american = R(100) THEN Parsed(100)
        ELSE IF RLt(R(-100), american) /\ RLt(american, R(100)) THEN Null
        ELSE Parsed(american[1])
  IN  Apply(Check, ParseInt(t))

\* Variant of ParsePlainInteger: the sign preference applies to 100 as well.
ParsePlainInteger_SignedHundred(t, signToggleValue) ==
  LET Convert(num) ==
        IF ~IsFinite(num) \/ RLe(num, Zero) THEN Null
        ELSE IF RLe(num, R(99))
             THEN IF num = R(50) THEN Parsed(100)
                  ELSE Parsed(Apply(ProbabilityToAmerican, RDiv(num, R(100))))
        ELSE Parsed(IF signToggleValue = "-" THEN -num[1] ELSE num[1])
  IN  Apply(Convert, ParseInt(t))

\* Step 7: a plain integer, Kalshi cents up to 99, American from 101 on.
ParsePlainInteger(t, signToggleValue) ==
  LET Convert(num) ==
        IF ~IsFinite(num) \/ RLe(num, Zero) THEN Null
        ELSE IF RLe(R(1), num) /\ RLe(num, R(99))
             THEN IF num = R(50) THEN Parsed(100)
                  ELSE Parsed(Apply(ProbabilityToAmerican, RDiv(num, R(100))))
        ELSE IF num = R(100) THEN Parsed(100)
        ELSE IF RLe(R(101), num)
             THEN Parsed(IF signToggleValue = "-" THEN -num[1] ELSE num[1])
        ELSE Null
  IN  Apply(Convert, ParseInt(t))

parseOdds(raw, signToggleValue) ==
  IF ~raw.present THEN Null
  ELSE
    LET Detect(t) ==
          LET hasPercent == Includes(t, "%")
              hasCents == EndsWith(t, "c") \/ EndsWith(t, "k")
              hasFraction == Includes(t, "/")
              formatCount ==
                (IF hasPercent THEN 1 ELSE 0) + (IF hasCents THEN 1 ELSE 0)
                  + (IF hasFraction THEN 1 ELSE 0)
          IN  IF t = <<>> \/ t = <<"-">> THEN Null
              ELSE IF formatCount > 1 THEN Null
              ELSE IF DecimalCentsPattern(t) THEN Null
              ELSE IF PercentCentsPattern(t) THEN Null
              ELSE IF EndsWith(t, "%") THEN Apply(ParsePercent, DropLast(t))
              ELSE IF EndsWith(t, "c") \/ EndsWith(t, "k") THEN Apply(ParsePercent, DropLast(t))
              ELSE IF Includes(t, "/") THEN ParseFraction(t)
              ELSE IF Includes(t, ".") THEN ParseDecimal(t)
              ELSE IF t = <<"e", "v">> \/ t = <<"e", "v", "e", "n">> THEN Parsed(100)
              ELSE IF StartsWith(t, "+") \/ StartsWith(t, "-") THEN ParseSigned(t)
              ELSE ParsePlainInteger(t, signToggleValue)
    IN  Apply(Detect, RemoveSpaces(ReplaceDashes(ToLowerCase(Trim(raw.chars)))))

\* The message getOddsError returns for an input it rejects.
Reason(message) == [isNull |-> FALSE, message |-> message]

\* /^[+-]?\d+$/.test(t)
SignedIntegerPattern(t) ==
  LET i0 == IF Len(t) > 0 /\ t[1] \in {"+", "-"} THEN 2 ELSE 1
  IN  i0 <= Len(t) /\ DigitRun(t, i0) = Len(t) - i0 + 1

\* The validator: null for an accepted (or empty) input, else the reason.
\* The range message stands for "American odds must be <=-100 or >=+100",
\* which the source writes with the signs U+2264 and U+2265.
getOddsError(raw, signToggleValue) ==
  IF ~raw.present THEN Null
  ELSE IF Trim(raw.chars) = <<>> THEN Null
  ELSE
    LET t == ToLowerCase(Trim(raw.chars))
        val == ParseInt(t)
        hasCents == EndsWith(t, "c") \/ EndsWith(t, "k")
        cents == ParseFloat(DropLast(t))
        dec == ParseFloat(t)
    IN  IF DecimalCentsPattern(t) THEN Reason("Invalid format: mixed tokens")
        ELSE IF PercentCentsPattern(t) THEN Reason("Invalid format: mixed tokens")
        ELSE IF /\ SignedIntegerPattern(t)
                /\ RLt(R(-100), val) /\ RLt(val, R(100)) /\ val # Zero
             THEN Reason("American odds must be <=-100 or >=+100")
        ELSE IF t = <<"1", ".", "0", "0">> \/ t = <<"1", ".", "0">>
             THEN Reason("Decimal 1.00 is invalid")
        ELSE IF hasCents /\ cents = Zero THEN Reason("0c is invalid")
        ELSE IF hasCents /\ cents = R(100) THEN Reason("100c is invalid")
        ELSE IF StartsWith(t, "-") /\ Includes(t, ".") /\ IsFinite(dec) /\ RLt(dec, Zero)
             THEN Reason("Negative decimal is invalid")
        ELSE IF parseOdds(raw, signToggleValue).isNull THEN Reason("Invalid odds format")
        ELSE Null

(***************************************************************************)
(* Inputs of the solver calls.                                             *)
(***************************************************************************)
Sides == {1, 2}
StakeSet == {R(0), R(100)}
ProfitSet == {R(40), R(100)}
FeesSet == {<<>>, <<R(5)>>}
PositionSet ==
  [side : Sides, stake : StakeSet, profit : ProfitSet, fees : FeesSet]
OddsSet == {Num(100), Num(200), Num(-200), Num(-110), Num(0), NaNOdds}
KALSHI_FEES == [openFeeRate |-> <<1, 100>>, settleFeeRate |-> <<1, 50>>]
HIGH_FEES == [openFeeRate |-> <<1, 4>>, settleFeeRate |-> <<1, 2>>]
FeeAdapterSet == {NO_FEES, KALSHI_FEES, HIGH_FEES}

(***************************************************************************)
(* Inputs of the fee calls: amounts in whole cents, prices in whole cents  *)
(* (valid and invalid), rates in [0, 1].                                   *)
(***************************************************************************)
FeeStakeSet == {R(0), <<31, 50>>, R(50), R(100)}
FeeProfitSet == {R(-50), R(0), <<1, 4>>, <<3333, 100>>, R(100)}
\* Amounts lying exactly on a half cent.
HalfCentSet == {<<-1, 8>>, <<-1, 200>>, <<1, 8>>}
PriceCents == {-10, 0, 1, 25, 33, 50, 62, 75, 99, 100, 150}
PriceSet == {Norm(c, 100) : c \in PriceCents}
\* Contract prices for the effective odds: every whole cent from 0.00 to 1.00.
EffectivePriceSet == {Norm(c, 100) : c \in 0..100}
FeeStructureSet == {DEFAULT_KALSHI_FEES, [openFee |-> Zero, settleFee |-> Zero]}
RateSet == {Zero, <<1, 100>>, <<1, 50>>, R(1)}
MarkerSet ==
  {Absent, Str(<<>>), Str(<<" ">>), Str(<<"P", "X", "!">>), Str(<<"p", "x", "!">>),
   Str(<<" ", "P", "x", "!", " ">>), Str(<<"P", "X">>), Str(<<"D", "K">>),
   Str(<<"P", "X", "!", "!">>)}

Idle == [fn |-> "none"]

(***************************************************************************)
(* The solver as a state machine: the caller holds the position list,      *)
(* calls one solver on it, and consumes the result before the next step.   *)
(***************************************************************************)
Init ==
  /\ positions = <<>>
  /\ call = Idle
  /\ result = Null
  /\ feeCall = Idle
  /\ feeResult = Null

AddPosition ==
  /\ call = Idle
  /\ Len(positions) < MaxPositions
  /\ \E p \in PositionSet : positions' = Append(positions, p)
  /\ UNCHANGED <<call, result, feeCall, feeResult>>

CallCover ==
  /\ call = Idle
  /\ \E side \in Sides, odds \in OddsSet, fa \in FeeAdapterSet :
       /\ call' = [fn |-> "calculateCover", side |-> side, odds |-> odds, fees |-> fa]
       /\ result' = calculateCover(positions, side, odds, fa)
  /\ UNCHANGED <<positions, feeCall, feeResult>>

CallEqualization ==
  /\ call = Idle
  /\ \E side \in Sides, odds \in OddsSet, fa \in FeeAdapterSet :
       /\ call' = [fn |-> "calculateEqualization", side |-> side, odds |-> odds, fees |-> fa]
       /\ result' = calculateEqualization(positions, side, odds, fa)
  /\ UNCHANGED <<positions, feeCall, feeResult>>

Discard ==
  /\ call # Idle
  /\ call' = Idle
  /\ result' = Null
  /\ UNCHANGED <<positions, feeCall, feeResult>>

Next == AddPosition \/ CallCover \/ CallEqualization \/ Discard

Spec == Init /\ [][Next]_vars

(***************************************************************************)
(* The fee engine as a state machine: one adapter call at a time.          *)
(***************************************************************************)
CallKalshiLedger ==
  /\ feeCall = Idle
  /\ \E stake \in FeeStakeSet, price \in PriceSet, fOpen \in RateSet, fSettle \in RateSet :
       /\ feeCall' = [fn |-> "kalshiLedger", stake |-> stake, price |-> price,
                      fOpen |-> fOpen, fSettle |-> fSettle]
       /\ feeResult' = kalshiLedger(stake, price, fOpen, fSettle)
  /\ UNCHANGED <<positions, call, result>>

CallApplyNoFees ==
  /\ feeCall = Idle
  /\ \E stake \in FeeStakeSet, profit \in FeeProfitSet \cup HalfCentSet :
       /\ feeCall' = [fn |-> "applyNoFees", stake |-> stake, profit |-> profit]
       /\ feeResult' = applyNoFees(stake, profit)
  /\ UNCHANGED <<positions, call, result>>

CallApplyProphetXFee ==
  /\ feeCall = Idle
  /\ \E stake \in FeeStakeSet, profit \in FeeProfitSet, sportsbook \in MarkerSet :
       /\ feeCall' = [fn |-> "applyProphetXFee", stake |-> stake, profit |-> profit,
                      sportsbook |-> sportsbook]
       /\ feeResult' = applyProphetXFee(stake, profit, sportsbook)
  /\ UNCHANGED <<positions, call, result>>

CallApplyKalshiYesFees ==
  /\ feeCall = Idle
  /\ \E stake \in FeeStakeSet, price \in PriceSet, fOpen \in RateSet, fSettle \in RateSet :
       /\ feeCall' = [fn |-> "applyKalshiYesFees", stake |-> stake, price |-> price,
                      fOpen |-> fOpen, fSettle |-> fSettle]
       /\ feeResult' = applyKalshiYesFees(stake, price, fOpen, fSettle)
  /\ UNCHANGED <<positions, call, result>>

CallApplyKalshiNoFees ==
  /\ feeCall = Idle
  /\ \E stake \in FeeStakeSet, price \in PriceSet, fOpen \in RateSet, fSettle \in RateSet :
       /\ feeCall' = [fn |-> "applyKalshiNoFees", stake |-> stake, price |-> price,
                      fOpen |-> fOpen, fSettle |-> fSettle]
       /\ feeResult' = applyKalshiNoFees(stake, price, fOpen, fSettle)
  /\ UNCHANGED <<positions, call, result>>

CallApplyCustomFeesUnified ==
  /\ feeCall = Idle
  /\ \E stake \in FeeStakeSet, profit \in FeeProfitSet, openFeePct \in RateSet,
        winFeePct \in RateSet :
       /\ feeCall' = [fn |-> "applyCustomFeesUnified", stake |-> stake, profit |-> profit,
                      openFeePct |-> openFeePct, winFeePct |-> winFeePct]
       /\ feeResult' = applyCustomFeesUnified(stake, profit, openFeePct, winFeePct)
  /\ UNCHANGED <<positions, call, result>>

CallKalshiEffectiveOdds ==
  /\ feeCall = Idle
  /\ \E price \in EffectivePriceSet, fees \in FeeStructureSet :
       /\ feeCall' = [fn |-> "kalshiEffectiveOdds", price |-> price, fees |-> fees]
       /\ feeResult' = kalshiEffectiveOdds(price, fees)
  /\ UNCHANGED <<positions, call, result>>

FeeDiscard ==
  /\ feeCall # Idle
  /\ feeCall' = Idle
  /\ feeResult' = Null
  /\ UNCHANGED <<positions, call, result>>

FeeNext ==
  \/ CallKalshiLedger
  \/ CallApplyNoFees
  \/ CallApplyProphetXFee
  \/ CallApplyKalshiYesFees
  \/ CallApplyKalshiNoFees
  \/ CallApplyCustomFeesUnified
  \/ CallKalshiEffectiveOdds
  \/ FeeDiscard

FeeSpec == Init /\ [][FeeNext]_vars

(***************************************************************************)
(* The target solvers as a state machine: the caller holds the position    *)
(* list and the odds quoted for both sides, and asks for a target profit   *)
(* or a coverage percentage.                                               *)
(***************************************************************************)
\* A quote: the odds of side A, the odds of side B, the fee adapter.
QuoteSet ==
  {<<Num(200), Num(-200), NO_FEES>>, <<Num(-110), Num(200), NO_FEES>>,
   <<Num(200), Num(-200), HIGH_FEES>>, <<Num(-150), Num(200), HIGH_FEES>>,
   <<NullOdds, Num(100), NO_FEES>>, <<Num(100), NaNOdds, NO_FEES>>,
   <<Num(0), Num(-110), NO_FEES>>, <<Num(200), Num(0), HIGH_FEES>>}
TargetProfitSet == {R(-100), R(0), R(50)}
CoveragePercentSet == {<<-1, 2>>, Zero, <<1, 2>>, R(1), <<3, 2>>}

CallTargetProfit ==
  /\ call = Idle
  /\ \E targetProfit \in TargetProfitSet, q \in QuoteSet :
       /\ call' = [fn |-> "calculateTargetProfit", targetProfit |-> targetProfit,
                   oddsA |-> q[1], oddsB |-> q[2], fees |-> q[3]]
       /\ result' = calculateTargetProfit(positions, targetProfit, q[1], q[2], q[3])
  /\ UNCHANGED <<positions, feeCall, feeResult>>

CallCoverage ==
  /\ call = Idle
  /\ \E coveragePercent \in CoveragePercentSet, q \in QuoteSet :
       /\ call' = [fn |-> "calculateCoverage", coveragePercent |-> coveragePercent,
                   oddsA |-> q[1], oddsB |-> q[2], fees |-> q[3]]
       /\ result' = calculateCoverage(positions, coveragePercent, q[1], q[2], q[3])
  /\ UNCHANGED <<positions, feeCall, feeResult>>

TargetNext == AddPosition \/ CallTargetProfit \/ CallCoverage \/ Discard

TargetSpec == Init /\ [][TargetNext]_vars

(***************************************************************************)
(* Inputs of the odds calls.                                               *)
(***************************************************************************)
\* American odds as a number: every integer up to MaxOdds in magnitude,
\* NaN and both infinities.
AmericanSet ==
  {R(i) : i \in (0 - MaxOdds)..MaxOdds} \cup {NaN, Infinity, RNeg(Infinity)}
DecimalSet ==
  {R(-1), Zero, <<1, 2>>, R(1), <<101, 100>>, <<3, 2>>, R(2), <<5, 2>>, R(3),
   NaN, Infinity, RNeg(Infinity)}

\* The notations of even money.
EvenMoneyNotations ==
  {Str(<<"5", "0", "%">>), Str(<<"5", "0", "c">>), Str(<<"5", "0", "k">>),
   Str(<<"0", ".", "5", "0">>), Str(<<".", "5">>), Str(<<"5", "0">>),
   Str(<<"1", "0", "0">>), Str(<<"+", "1", "0", "0">>),
   Str(<<"1", "/", "1">>), Str(<<"2", ".", "0">>),
   Str(<<"e", "v", "e", "n">>), Str(<<"e", "v">>)}
RawExamples ==
  {Absent,
   Str(<<"-", "1", "0", "0">>), Str(<<"5", "0", ".", "1", "%">>),
   Str(<<"4", "9", ".", "9", "%">>), Str(<<"1", ".", "9", "9", "9">>),
   Str(<<"1", ".", "4", "3", "c">>), Str(<<"7", "0", "%", "c">>),
   Str(<<"1", "/", "2", "/", "3">>), Str(<<"1", "e", "2">>),
   Str(<<"E", "V", "E", "N">>), Str(<<" ", "5", "0", "%", " ">>),
   Str(<<"5", " ", "0", " ", "c">>), Str(<<"U+2212", "1", "5", "0">>),
   Str(<<"U+2013", "1", "5", "0">>), Str(<<"U+2014", "1", "5", "0">>),
   Str(<<"-", "2", "0", "0">>), Str(<<"+", "1", "5", "0">>),
   Str(<<"1", "5", "0">>), Str(<<"2", "5", "%">>), Str(<<"7", "5", "k">>),
   Str(<<"0", ".", "2", "5">>), Str(<<"5", "/", "2">>),
   Str(<<"1", ".", "0">>), Str(<<"-", "1", ".", "5">>),
   Str(<<"+", "9", "9">>), Str(<<"-", "9", "9">>),
   Str(<<"9", "9", "9", "/", "1", "0", "0", "0">>), Str(<<"E", "v">>),
   Str(<<>>)}
RawAlphabet == {"0", "1", "2", "5", "9", ".", "/", "%", "c", "+", "-"}
\* null, the examples, and every string of up to MaxRawLen characters.
RawSet ==
  EvenMoneyNotations \cup RawExamples
    \cup UNION {{Str(cs) : cs \in [1..n -> RawAlphabet]} : n \in 0..MaxRawLen}
SignToggleSet == {"+", "-"}

(***************************************************************************)
(* The odds library as a state machine: one call at a time; a decimal      *)
(* returned by americanToDecimal can be converted back.                    *)
(***************************************************************************)
CallAmericanToDecimal ==
  /\ call = Idle
  /\ \E odds \in AmericanSet :
       /\ call' = [fn |-> "americanToDecimal", american |-> odds]
       /\ result' = americanToDecimalChecked(odds)
  /\ UNCHANGED <<positions, feeCall, feeResult>>

\* decimalToAmerican(americanToDecimal(o)): the call keeps o as "from".
ConvertBack ==
  /\ call.fn = "americanToDecimal"
  /\ ~result.threw
  /\ call' = [fn |-> "decimalToAmerican", decimal |-> result.value, from |-> call.american]
  /\ result' = decimalToAmerican(result.value)
  /\ UNCHANGED <<positions, feeCall, feeResult>>

CallDecimalToAmerican ==
  /\ call = Idle
  /\ \E decimal \in DecimalSet :
       /\ call' = [fn |-> "decimalToAmerican", decimal |-> decimal]
       /\ result' = decimalToAmerican(decimal)
  /\ UNCHANGED <<positions, feeCall, feeResult>>

CallImpliedProbability ==
  /\ call = Idle
  /\ \E american \in AmericanSet :
       /\ call' = [fn |-> "impliedProbability", american |-> american]
       /\ result' = impliedProbability(american)
  /\ UNCHANGED <<positions, feeCall, feeResult>>

CallProfitPerDollar ==
  /\ call = Idle
  /\ \E american \in AmericanSet :
       /\ call' = [fn |-> "profitPerDollar", american |-> american]
       /\ result' = profitPerDollarChecked(american)
  /\ UNCHANGED <<positions, feeCall, feeResult>>

CallParseOdds ==
  /\ call = Idle
  /\ \E raw \in RawSet, signToggleValue \in SignToggleSet :
       /\ call' = [fn |-> "parseOdds", raw |-> raw, signToggleValue |-> signToggleValue]
       /\ result' = parseOdds(raw, signToggleValue)
  /\ UNCHANGED <<positions, feeCall, feeResult>>

CallGetOddsError ==
  /\ call = Idle
  /\ \E raw \in RawSet, signToggleValue \in SignToggleSet :
       /\ call' = [fn |-> "getOddsError", raw |-> raw, signToggleValue |-> signToggleValue]
       /\ result' = getOddsError(raw, signToggleValue)
  /\ UNCHANGED <<positions, feeCall, feeResult>>

OddsNext ==
  \/ CallAmericanToDecimal
  \/ ConvertBack
  \/ CallDecimalToAmerican
  \/ CallImpliedProbability
  \/ CallProfitPerDollar
  \/ CallParseOdds
  \/ CallGetOddsError
  \/ Discard

OddsSpec == Init /\ [][OddsNext]_vars

(***************************************************************************)
(* All five solvers on one book.  The book also holds positions whose fees *)
(* exceed stake plus profit and positions with no stake (a free bet).      *)
(***************************************************************************)
HedgePositionSet ==
  [side : Sides, stake : {R(0), R(100)}, profit : {R(100)}, fees : {<<>>, <<R(250)>>}]

AddHedgePosition ==
  /\ call = Idle
  /\ Len(positions) < MaxPositions
  /\ \E p \in HedgePositionSet : positions' = Append(positions, p)
  /\ UNCHANGED <<call, result, feeCall, feeResult>>

CallAutoEqualize ==
  /\ call = Idle
  /\ \E q \in QuoteSet :
       /\ call' = [fn |-> "autoEqualize", oddsA |-> q[1], oddsB |-> q[2], fees |-> q[3]]
       /\ result' = autoEqualize(positions, q[1], q[2], q[3])
  /\ UNCHANGED <<positions, feeCall, feeResult>>

HedgeNext ==
  \/ AddHedgePosition
  \/ CallCover
  \/ CallEqualization
  \/ CallAutoEqualize
  \/ CallTargetProfit
  \/ CallCoverage
  \/ Discard

HedgeSpec == Init /\ [][HedgeNext]_vars

(***************************************************************************)
(* Properties of the solver (checked under Spec).                          *)
(***************************************************************************)
ValidOdds(o) == o.kind = "num" /\ (o.val >= 100 \/ o.val <= -100)

\* The position list after committing a proposed bet of stake D at the
\* given odds: {side, stake: D, profit: D * profitPerDollar(odds)}.
WithBet(ps, side, D, odds) ==
  Append(ps, [side |-> side, stake |-> D,
              profit |-> RMul(D, profitPerDollar(odds)), fees |-> <<>>])

EqualizeNoFeesReturned ==
  /\ call.fn = "calculateEqualization"
  /\ call.fees = NO_FEES
  /\ ValidOdds(call.odds)
  /\ ~result.isNull

NetsEqualAfter(ps) == Within(NetA(ps), NetB(ps), Cent)

\* C1 as stated: whenever calculateEqualization (NO_FEES, valid odds)
\* returns a result with stake D, committing the bet {side, D,
\* D * profitPerDollar(odds)} leaves |netA - netB| < 0.01.
C1_EqualizeFixedPoint_AnyStake ==
  EqualizeNoFeesReturned =>
    NetsEqualAfter(WithBet(positions, call.side, result.stake, call.odds.val))

\* C1 amended: the fixed point holds whenever the returned stake is
\* positive; a returned stake of 0 (the clamp, taken when equalizeSide is
\* the side whose net is already the higher one) leaves the nets as far
\* apart as they were, at least 0.01.
C1_EqualizeFixedPoint ==
  EqualizeNoFeesReturned =>
    /\ RLt(Zero, result.stake) =>
         NetsEqualAfter(WithBet(positions, call.side, result.stake, call.odds.val))
    /\ result.stake = Zero =>
         /\ RLt(NetOf(positions, 3 - call.side), NetOf(positions, call.side))
         /\ ~NetsEqualAfter(positions)

C1_Witness ==
  /\ EqualizeNoFeesReturned
  /\ RLt(Zero, result.stake)
  /\ call.odds.val = -110
  /\ Len(positions) = 2

CoverNoFeesCalled ==
  /\ call.fn = "calculateCover"
  /\ call.fees = NO_FEES
  /\ ValidOdds(call.odds)

NetAfterCover(r, side) ==
  IF side = 1 THEN r.netAfterCover.sideA ELSE r.netAfterCover.sideB

\* C2: calculateCover with NO_FEES and valid odds returns a result; when
\* the covered side's current net is negative, netAfterCover for that side
\* is within 0.01 of zero; when it is already >= 0, the stake is exactly 0.
C2_CoverFixedPointNoFees ==
  CoverNoFeesCalled =>
    /\ ~result.isNull
    /\ RLt(NetOf(positions, call.side), Zero) =>
         Within(NetAfterCover(result, call.side), Zero, Cent)
    /\ RLe(Zero, NetOf(positions, call.side)) => result.stake = Zero

C2_Witness ==
  /\ CoverNoFeesCalled
  /\ RLt(NetOf(positions, call.side), Zero)
  /\ ~result.isNull
  /\ RLt(Zero, result.stake)
  /\ call.odds.val = -200

\* C3: with any fee adapter (rates >= 0) and any valid odds, when the
\* covered side's net is negative and calculateCover returns a positive
\* stake, netAfterCover for the covered side is within 0.01 of zero.
C3_CoverWithFeesToZero ==
  ( /\ call.fn = "calculateCover"
    /\ ValidOdds(call.odds)
    /\ RLt(NetOf(positions, call.side), Zero)
    /\ ~result.isNull
    /\ RLt(Zero, result.stake) )
  => Within(NetAfterCover(result, call.side), Zero, Cent)

OneSidedBookOnA ==
  /\ Len(positions) = 1
  /\ positions[1].side = 1
  /\ Len(positions[1].fees) = 0
  /\ call.fn = "calculateEqualization"
  /\ call.side = 2
  /\ call.fees = NO_FEES
  /\ ValidOdds(call.odds)

FeeAdapters ==
  {"applyNoFees", "applyProphetXFee", "applyKalshiYesFees", "applyKalshiNoFees",
   "applyCustomFeesUnified"}
ContractFns == {"kalshiLedger", "applyKalshiYesFees", "applyKalshiNoFees"}

ValidPrice(price) == RLt(Zero, price) /\ RLt(price, R(1))

\* The call is an adapter call on its documented domain.
AdapterInDomain ==
  /\ feeCall.fn \in FeeAdapters
  /\ feeCall.fn \in ContractFns => ValidPrice(feeCall.price)

\* x is a whole number of cents.
WholeCents(x) == IsFinite(x) /\ 100 % x[2] = 0
\* r is x rounded to the nearest cent: a whole number of cents within
\* half a cent of x.
NearestCent(r, x) == WholeCents(r) /\ RLe(RAbs(RSub(r, x)), <<1, 200>>)

\* C5: every fee adapter, on every input of its domain, returns a FeeResult
\* with netProfit = profitBeforeFees - feesBreakdown.total.
C5_NetProfitInvariant ==
  AdapterInDomain =>
    /\ ~feeResult.threw
    /\ feeResult.netProfit =
         RSub(feeResult.profitBeforeFees, feeResult.feesBreakdown.total)

EffectivePrice ==
  IF feeCall.fn = "applyKalshiNoFees" THEN RSub(R(1), feeCall.price) ELSE feeCall.price
\* The amount spent on contracts: floor(stake / price) contracts at the price.
ContractCost == RMul(R(RFloor(RDiv(feeCall.stake, EffectivePrice))), EffectivePrice)

LedgerInDomain == feeCall.fn = "kalshiLedger" /\ ValidPrice(feeCall.price)

\* C7: on 0 < price < 1 kalshiLedger returns contracts = floor(stake / price),
\* cost = round2(contracts * price), openFee = round2(cost * fOpen),
\* netPayout = contracts - settleFee and profit = netPayout - (cost + openFee);
\* at stake 100, price 0.50, rates 0.01 / 0.02 it returns 200, 100, 1, 4, 196, 95.
C7_KalshiLedgerInvariants ==
  LedgerInDomain =>
    /\ ~feeResult.threw
    /\ feeResult.contracts[2] = 1
    /\ RLe(RMul(feeResult.contracts, feeCall.price), feeCall.stake)
    /\ RLt(feeCall.stake, RMul(RAdd(feeResult.contracts, R(1)), feeCall.price))
    /\ NearestCent(feeResult.cost, RMul(feeResult.contracts, feeCall.price))
    /\ NearestCent(feeResult.openFee, RMul(feeResult.cost, feeCall.fOpen))
    /\ feeResult.netPayout = RSub(feeResult.contracts, feeResult.settleFee)
    /\ feeResult.profit =
         RSub(feeResult.netPayout, RAdd(feeResult.cost, feeResult.openFee))
    /\ ( /\ feeCall.stake = R(100)
         /\ feeCall.price = <<1, 2>>
         /\ feeCall.fOpen = <<1, 100>>
         /\ feeCall.fSettle = <<1, 50>> )
       => /\ feeResult.contracts = R(200)
          /\ feeResult.cost = R(100)
          /\ feeResult.openFee = R(1)
          /\ feeResult.settleFee = R(4)
          /\ feeResult.netPayout = R(196)
          /\ feeResult.profit = R(95)

C7_Witness ==
  /\ LedgerInDomain
  /\ feeCall.stake = R(100)
  /\ feeCall.price = <<3, 4>>
  /\ feeCall.fOpen = <<1, 100>>
  /\ feeCall.fSettle = <<1, 50>>
  /\ ~feeResult.threw
  /\ feeResult.contracts = R(133)
  /\ feeResult.cost = Norm(9975, 100)
  /\ feeResult.profit = <<2959, 100>>

\* C8: for a YES contract position the settle fee returned by
\* applyKalshiYesFees is round2(grossProfit * settleRate) with
\* grossProfit = contracts - cost, not settleRate times the contract count.
C8_SettleFeeOnProfit ==
  ( /\ feeCall.fn = "applyKalshiYesFees"
    /\ ValidPrice(feeCall.price)
    /\ ~feeResult.threw )
  => NearestCent(feeResult.feesBreakdown.settleFee,
                 RMul(feeResult.profitBeforeFees, feeCall.fSettle))

\* C9: for every price <= 0 or >= 1, kalshiLedger, applyKalshiYesFees and
\* applyKalshiNoFees each raise an error and return no result.
C9_InvalidPriceThrows ==
  (feeCall.fn \in ContractFns /\ ~ValidPrice(feeCall.price)) => feeResult.threw

\* The markers that, trimmed and upper-cased, read "PX!".
PXBangMarkers ==
  {Str(<<"P", "X", "!">>), Str(<<"p", "x", "!">>), Str(<<" ", "P", "x", "!", " ">>)}

ChargesWinFee ==
  feeCall.sportsbook \in PXBangMarkers /\ RLt(Zero, feeCall.profit)

\* C10: applyProphetXFee deducts winFee = round2(0.01 * profit), giving
\* netProfit = profit - winFee, exactly when the marker trimmed and
\* upper-cased is "PX!" and profit > 0; in every other case the result is
\* that of applyNoFees: netProfit = profit and feesBreakdown.total = 0.
C10_FlatWinningsFeeByMarker ==
  feeCall.fn = "applyProphetXFee" =>
    /\ ~feeResult.threw
    /\ ChargesWinFee =>
         /\ "winFee" \in DOMAIN feeResult.feesBreakdown
         /\ NearestCent(feeResult.feesBreakdown.winFee, RMul(feeCall.profit, <<1, 100>>))
         /\ feeResult.feesBreakdown.total = feeResult.feesBreakdown.winFee
         /\ feeResult.netProfit = RSub(feeCall.profit, feeResult.feesBreakdown.winFee)
    /\ ~ChargesWinFee =>
         /\ feeResult = applyNoFees(feeCall.stake, feeCall.profit)
         /\ feeResult.netProfit = feeCall.profit
         /\ feeResult.feesBreakdown.total = Zero

C10_Witness ==
  /\ feeCall.fn = "applyProphetXFee"
  /\ feeCall.sportsbook = Str(<<" ", "P", "x", "!", " ">>)
  /\ feeCall.profit = R(100)
  /\ feeCall.stake = R(100)
  /\ ~feeResult.threw
  /\ feeResult.netProfit = R(99)
  /\ feeResult.payout = R(199)

\* The gross profit of an adapter call: the profit argument, or for a
\* contract adapter the returned profit before fees.
GrossProfit ==
  IF feeCall.fn \in ContractFns THEN feeResult.profitBeforeFees ELSE feeCall.profit

\* C11: for every grossProfit > 0 and fee rates in [0, 1], each fee adapter
\* returns netProfit <= profitBeforeFees, with equality for applyNoFees, for
\* applyProphetXFee with a marker other than "PX!", and for
\* applyCustomFeesUnified with both rates 0.
C11_FeeMonotonicity ==
  (AdapterInDomain /\ ~feeResult.threw /\ RLt(Zero, GrossProfit)) =>
    /\ RLe(feeResult.netProfit, feeResult.profitBeforeFees)
    /\ feeCall.fn = "applyNoFees" =>
         feeResult.netProfit = feeResult.profitBeforeFees
    /\ (feeCall.fn = "applyProphetXFee" /\ feeCall.sportsbook \notin PXBangMarkers) =>
         feeResult.netProfit = feeResult.profitBeforeFees
    /\ ( /\ feeCall.fn = "applyCustomFeesUnified"
         /\ feeCall.openFeePct = Zero
         /\ feeCall.winFeePct = Zero )
       => feeResult.netProfit = feeResult.profitBeforeFees

C11_Witness ==
  /\ feeCall.fn = "applyCustomFeesUnified"
  /\ feeCall.stake = R(100)
  /\ feeCall.profit = R(100)
  /\ feeCall.openFeePct = <<1, 50>>
  /\ feeCall.winFeePct = <<1, 100>>
  /\ ~feeResult.threw
  /\ feeResult.profitBeforeFees = R(100)
  /\ feeResult.netProfit = R(97)

(***************************************************************************)
(* Further properties of the solver (checked under Spec).                  *)
(***************************************************************************)
\* (decimalOdds - 1) - settleFeeRate - openFeeRate of the called cover.
CoverEdge ==
  RSub(RSub(RSub(americanToDecimal(call.odds.val), R(1)), call.fees.settleFeeRate),
       call.fees.openFeeRate)

\* C15: for finite non-zero odds and a fee adapter with
\* (decimalOdds - 1) - settleFeeRate - openFeeRate <= 0, calculateCover
\* returns a non-null result whose stake is 0, never null.
C15_CoverFeesExceedEdge ==
  ( /\ call.fn = "calculateCover"
    /\ call.odds.kind = "num"
    /\ call.odds.val # 0
    /\ RLe(CoverEdge, Zero) )
  => /\ ~result.isNull
     /\ result.stake = Zero

\* What one position adds to each total.
ProfitOn(p, side) == IF p.side = side THEN p.profit ELSE Zero
StakeOn(p, side) == IF p.side = side THEN p.stake ELSE Zero
FeesOn(p, side) == IF p.side = side /\ Len(p.fees) = 1 THEN p.fees[1] ELSE Zero

\* C19 as stated: netA([p1, p2]) = netA([p1]) + profitA([p2]) - stakeB([p2])
\* and netB([p1, p2]) = netB([p1]) + profitB([p2]) - stakeA([p2]), for
\* positions with optional fees.
C19_AggregatorAdditivity_WithoutFees ==
  Len(positions) = 2 =>
    LET p1 == positions[1]
        p2 == positions[2]
    IN  /\ NetA(positions) =
             RSub(RAdd(NetA(<<p1>>), ProfitOn(p2, 1)), StakeOn(p2, 2))
        /\ NetB(positions) =
             RSub(RAdd(NetB(<<p1>>), ProfitOn(p2, 2)), StakeOn(p2, 1))

\* C19 amended: the second position's fees are subtracted too:
\* netA([p1, p2]) = netA([p1]) + profitA([p2]) - stakeB([p2]) - feesA([p2]),
\* and symmetrically for netB.
C19_AggregatorAdditivity ==
  Len(positions) = 2 =>
    LET p1 == positions[1]
        p2 == positions[2]
    IN  /\ NetA(positions) =
             RSub(RSub(RAdd(NetA(<<p1>>), ProfitOn(p2, 1)), StakeOn(p2, 2)), FeesOn(p2, 1))
        /\ NetB(positions) =
             RSub(RSub(RAdd(NetB(<<p1>>), ProfitOn(p2, 2)), StakeOn(p2, 1)), FeesOn(p2, 2))

C19_Witness ==
  /\ Len(positions) = 2
  /\ positions[1].side = 2
  /\ positions[1].stake = R(100)
  /\ positions[2].side = 1
  /\ positions[2].stake = R(100)
  /\ positions[2].fees = <<R(5)>>
  /\ positions[2].profit = R(40)
  /\ NetA(positions) = R(-65)
(***************************************************************************)
(* Properties of the target solvers (checked under TargetSpec).            *)
(***************************************************************************)
TargetFns == {"calculateTargetProfit", "calculateCoverage"}

\* The side with the lower current net; a tie goes to side B.
WeakerSide == IF RLt(NetA(positions), NetB(positions)) THEN 1 ELSE 2
WeakerOdds == IF WeakerSide = 1 THEN call.oddsA ELSE call.oddsB
OtherOdds == IF WeakerSide = 1 THEN call.oddsB ELSE call.oddsA
WeakerNet == NetOf(positions, WeakerSide)

\* (decimalOdds - 1) - settleFeeRate - openFeeRate at the weaker side's odds.
TargetDenominator ==
  RSub(RSub(RSub(americanToDecimal(WeakerOdds.val), R(1)), call.fees.settleFeeRate),
       call.fees.openFeeRate)

TargetProfitSolvable ==
  /\ call.fn = "calculateTargetProfit"
  /\ ~BadOdds(WeakerOdds)
  /\ RLt(Zero, TargetDenominator)

\* C16 as stated: with valid odds for the weaker side and a positive
\* denominator, calculateTargetProfit returns null whenever
\* currentNet >= targetProfit and a result with stake > 0 otherwise.
C16_TargetNoBetNeeded_AtOrAbove ==
  TargetProfitSolvable =>
    IF RLe(call.targetProfit, WeakerNet)
    THEN result.isNull
    ELSE ~result.isNull /\ RLt(Zero, result.stake)

\* C16 amended: null exactly when currentNet > targetProfit; a result with
\* stake > 0 when currentNet < targetProfit; a result with stake 0 when
\* currentNet = targetProfit.
C16_TargetNoBetNeeded ==
  TargetProfitSolvable =>
    /\ RLt(call.targetProfit, WeakerNet) => result.isNull
    /\ RLt(WeakerNet, call.targetProfit) => ~result.isNull /\ RLt(Zero, result.stake)
    /\ WeakerNet = call.targetProfit => ~result.isNull /\ result.stake = Zero

C16_Witness ==
  /\ TargetProfitSolvable
  /\ Len(positions) = 1
  /\ positions[1].side = 1
  /\ positions[1].stake = R(100)
  /\ call.targetProfit = R(-100)
  /\ ~result.isNull
  /\ result.side = 2
  /\ result.stake = Zero

\* C17: calculateTargetProfit and calculateCoverage bet on side 1 exactly
\* when netA < netB and on side 2 otherwise (a tie, the empty list
\* included, selects side B); the result's odds are those supplied for the
\* selected side; the result is null when those odds are null, 0 or
\* non-finite, whatever the other side's odds.
C17_WeakerSideSelection ==
  call.fn \in TargetFns =>
    /\ ~result.isNull =>
         /\ result.side = (IF RLt(NetA(positions), NetB(positions)) THEN 1 ELSE 2)
         /\ result.odds = WeakerOdds.val
    /\ BadOdds(WeakerOdds) => result.isNull

C17_Witness ==
  /\ call.fn = "calculateTargetProfit"
  /\ positions = <<>>
  /\ call.oddsA = NullOdds
  /\ call.oddsB = Num(100)
  /\ call.targetProfit = R(50)
  /\ call.fees = NO_FEES
  /\ ~result.isNull
  /\ result.side = 2
  /\ result.odds = 100
  /\ result.stake = R(50)

\* C18: for coveragePercent c in [0, 1] and NO_FEES, whenever
\* calculateCoverage returns a result with stake D on the weaker side,
\* appending {side, D, D * profitPerDollar(odds)} brings that side's net
\* within 0.01 of -L * (1 - c), L being the total stake on the other side;
\* for c < 0 or c > 1 the result is null.
C18_CoverageTarget ==
  call.fn = "calculateCoverage" =>
    /\ (RLt(call.coveragePercent, Zero) \/ RLt(R(1), call.coveragePercent)) => result.isNull
    /\ (call.fees = NO_FEES /\ ~result.isNull) =>
         LET L == SumStake(positions, 3 - result.side)
             after == WithBet(positions, result.side, result.stake, result.odds)
         IN  Within(NetOf(after, result.side),
                    RMul(RNeg(L), RSub(R(1), call.coveragePercent)), Cent)

C18_Witness ==
  /\ call.fn = "calculateCoverage"
  /\ call.fees = NO_FEES
  /\ Len(positions) = 1
  /\ positions[1].side = 1
  /\ positions[1].stake = R(100)
  /\ positions[1].profit = R(100)
  /\ call.coveragePercent = <<1, 2>>
  /\ call.oddsB = Num(-200)
  /\ ~result.isNull
  /\ result.side = 2
  /\ result.stake = R(100)
(***************************************************************************)
(* Properties of the odds library (checked under OddsSpec).                *)
(***************************************************************************)
RoundTripMade == call.fn = "decimalToAmerican" /\ "from" \in DOMAIN call

\* C12: for every integer American odds o with o >= 100 or o <= -101,
\* decimalToAmerican(americanToDecimal(o)) = o; o = -100 maps to +100.
C12_OddsRoundTrip ==
  RoundTripMade =>
    LET o == call.from[1]
    IN  /\ (o >= 100 \/ o <= -101) => ~result.threw /\ result.value = o
        /\ o = -100 => ~result.threw /\ result.value = 100

C12_Witness ==
  /\ RoundTripMade
  /\ call.from = R(-110)
  /\ call.decimal = <<21, 11>>
  /\ result = Returned(-110)

ParseOddsCalled == call.fn = "parseOdds"

\* C13: parseOdds returns exactly +100 for every even-money notation,
\* whatever the sign preference.
C13_EvenMoneyInvariance ==
  (ParseOddsCalled /\ call.raw \in EvenMoneyNotations) => result = Parsed(100)

C13_Witness ==
  /\ ParseOddsCalled
  /\ call.raw = Str(<<"1", "0", "0">>)
  /\ call.signToggleValue = "-"
  /\ result = Parsed(100)

\* C14: a non-null result r of parseOdds satisfies r >= 100 or r <= -101
\* (never inside (-100, 100), never -100).
C14_CanonicalOdds ==
  (ParseOddsCalled /\ ~result.isNull) => (result.value >= 100 \/ result.value <= -101)

\* C20: americanToDecimal, impliedProbability and profitPerDollar throw at
\* American odds 0 or a non-finite value; decimalToAmerican throws for a
\* decimal <= 1 or non-finite.
C20_ConversionsFailLoudly ==
  /\ (/\ call.fn \in {"americanToDecimal", "impliedProbability", "profitPerDollar"}
      /\ (call.american = Zero \/ ~IsFinite(call.american)))
     => result.threw
  /\ (/\ call.fn = "decimalToAmerican"
      /\ (~IsFinite(call.decimal) \/ RLe(call.decimal, R(1))))
     => result.threw
(***************************************************************************)
(* Further properties of the fee engine (checked under FeeSpec).           *)
(***************************************************************************)
\* x rounded to 2 decimals, half away from zero:
\* sign(x) * floor(|x| * 100 + 1/2) / 100.
RoundHalfAwayFromZero(x) ==
  Norm(Sign(x) * RFloor(RAdd(RMul(RAbs(x), R(100)), <<1, 2>>)), 100)

\* C21: the money values of the fee engine are rounded to 2 decimals half
\* away from zero, negative amounts included: applyNoFees returns
\* profitBeforeFees and netProfit equal to the half-away-from-zero rounding
\* of the profit it was given.
C21_RoundHalfAwayFromZero ==
  (feeCall.fn = "applyNoFees" /\ ~feeResult.threw) =>
    /\ feeResult.profitBeforeFees = RoundHalfAwayFromZero(feeCall.profit)
    /\ feeResult.netProfit = RoundHalfAwayFromZero(feeCall.profit)

\* The YES purchase that mirrors the called NO purchase: same stake and
\* fee rates, YES price equal to the NO price 1 - price.
MirrorYes ==
  applyKalshiYesFees(feeCall.stake, RSub(R(1), feeCall.price), feeCall.fOpen, feeCall.fSettle)

\* C22: for 0 < q < 1, applyKalshiNoFees(stake, 1 - q) and
\* applyKalshiYesFees(stake, q) with the same fee rates return the same
\* gross profit before fees, open fee, settle fee and netProfit.
C22_YesNoMirror ==
  (feeCall.fn = "applyKalshiNoFees" /\ ValidPrice(feeCall.price)) =>
    /\ ~feeResult.threw
    /\ ~MirrorYes.threw
    /\ feeResult.profitBeforeFees = MirrorYes.profitBeforeFees
    /\ feeResult.feesBreakdown.openFee = MirrorYes.feesBreakdown.openFee
    /\ feeResult.feesBreakdown.settleFee = MirrorYes.feesBreakdown.settleFee
    /\ feeResult.netProfit = MirrorYes.netProfit
(***************************************************************************)
(* Properties of the five solvers together (checked under HedgeSpec).      *)
(***************************************************************************)
AutoEqualizeCalled == call.fn = "autoEqualize"

\* The side whose current net is lower, for unequal nets.
LowerNetSide == IF RLt(NetB(positions), NetA(positions)) THEN 2 ELSE 1
LowerNetOdds == IF LowerNetSide = 2 THEN call.oddsB ELSE call.oddsA

\* C25: with |netA - netB| >= 0.01 autoEqualize proposes the bet on the
\* side whose current net is lower, at that side's odds, and returns null
\* when those odds are null; with |netA - netB| < 0.01 it returns null;
\* every non-null result has stake > 0.
C25_AutoEqualizeLowerSide ==
  AutoEqualizeCalled =>
    IF Within(NetA(positions), NetB(positions), Cent)
    THEN result.isNull
    ELSE /\ LowerNetOdds = NullOdds => result.isNull
         /\ ~result.isNull =>
              /\ result.side = LowerNetSide
              /\ result.odds = LowerNetOdds.val
              /\ RLt(Zero, result.stake)

SolverFns ==
  {"calculateCover", "calculateEqualization", "autoEqualize", "calculateTargetProfit",
   "calculateCoverage"}

\* C26: any non-null result of the five solvers has stake >= 0, and a
\* result of calculateEqualization (directly or through autoEqualize) has
\* targetTotal = the side's current stake + that stake.
C26_StakeNeverNegative ==
  (call.fn \in SolverFns /\ ~result.isNull) =>
    /\ RLe(Zero, result.stake)
    /\ call.fn \in {"calculateEqualization", "autoEqualize"} =>
         result.targetTotal = RAdd(SumStake(positions, result.side), result.stake)

C26_Witness ==
  /\ call.fn = "calculateEqualization"
  /\ call.side = 2
  /\ call.odds = Num(100)
  /\ call.fees = NO_FEES
  /\ Len(positions) = 2
  /\ positions[1] = [side |-> 1, stake |-> R(100), profit |-> R(100), fees |-> <<>>]
  /\ positions[2] = [side |-> 2, stake |-> R(100), profit |-> R(100), fees |-> <<R(250)>>]
  /\ ~result.isNull
  /\ result.stake = R(125)
  /\ result.targetTotal = R(225)
(***************************************************************************)
(* Further properties of the target solvers (checked under TargetSpec).    *)
(***************************************************************************)
TargetProfitNoFeesReturned ==
  /\ call.fn = "calculateTargetProfit"
  /\ call.fees = NO_FEES
  /\ ~result.isNull

\* The book after the proposed bet is committed.
AfterProposedBet == WithBet(positions, result.side, result.stake, result.odds)

\* C23: with NO_FEES, whenever calculateTargetProfit returns a result with
\* stake D, appending {side, D, D * profitPerDollar(odds)} brings the
\* selected side's net within 0.01 of targetProfit.
C23_TargetReachedOnWeakerSide ==
  TargetProfitNoFeesReturned =>
    Within(NetOf(AfterProposedBet, result.side), call.targetProfit, Cent)

C23_Witness ==
  /\ TargetProfitNoFeesReturned
  /\ Len(positions) = 1
  /\ positions[1].side = 1
  /\ positions[1].stake = R(100)
  /\ call.targetProfit = R(50)
  /\ call.oddsB = Num(-200)
  /\ result.side = 2
  /\ result.stake = R(300)
  /\ NetB(AfterProposedBet) = R(50)

\* C24: with NO_FEES, whenever calculateTargetProfit returns a result with
\* stake D, appending the bet leaves both netA and netB at or above
\* targetProfit - 0.01.
C24_TargetReachedOnBothSides ==
  TargetProfitNoFeesReturned =>
    /\ RLe(RSub(call.targetProfit, Cent), NetA(AfterProposedBet))
    /\ RLe(RSub(call.targetProfit, Cent), NetB(AfterProposedBet))

\* The selected side's net once stake D is placed on it at the result's
\* odds and charged as calculateCover charges a new bet: open fee
\* D * openFeeRate, settle fee D * (decimalOdds - 1) * settleFeeRate.
NetAfterChargedBet ==
  LET D == result.stake
      winnings == RMul(D, RSub(americanToDecimal(result.odds), R(1)))
      openFee == RMul(D, call.fees.openFeeRate)
      settleFee == RMul(winnings, call.fees.settleFeeRate)
  IN  RSub(RSub(RAdd(NetOf(positions, result.side), winnings), settleFee), openFee)

\* The net the called target solver aims at.
AimedNet ==
  IF call.fn = "calculateTargetProfit" THEN call.targetProfit
  ELSE RMul(RNeg(SumStake(positions, 3 - result.side)), RSub(R(1), call.coveragePercent))

\* C29: for every fee adapter, whenever calculateTargetProfit or
\* calculateCoverage returns stake D, placing D on the selected side with
\* the new bet charged as in calculateCover's netAfterCover brings that
\* side's net within 0.01 of the target.
C29_OneFeeModel ==
  (call.fn \in TargetFns /\ ~result.isNull) => Within(NetAfterChargedBet, AimedNet, Cent)

\* calculateCover on the weaker side at that side's odds, for the called
\* calculateCoverage.
CoverOfWeakerSide == calculateCover(positions, WeakerSide, WeakerOdds, call.fees)

\* C30: when the weaker side's net is negative, calculateCoverage at
\* coveragePercent 1 and calculateCover on the weaker side at its odds are
\* both null or both non-null, with the same side and stake when non-null.
C30_FullCoverageIsCover ==
  ( /\ call.fn = "calculateCoverage"
    /\ call.coveragePercent = R(1)
    /\ RLt(WeakerNet, Zero) )
  => /\ result.isNull = CoverOfWeakerSide.isNull
     /\ ~result.isNull =>
          /\ result.side = CoverOfWeakerSide.side
          /\ result.stake = CoverOfWeakerSide.stake
(***************************************************************************)
(* Effective odds after fees (checked under FeeSpec).                      *)
(***************************************************************************)
EffectiveOddsOnValidPrice ==
  /\ feeCall.fn = "kalshiEffectiveOdds"
  /\ ValidPrice(feeCall.price)
  /\ WholeCents(feeCall.price)
  /\ feeCall.fees = DEFAULT_KALSHI_FEES

\* C27: for every whole-cent contract price from 0.01 to 0.99 and the
\* default fees, kalshiEffectiveOdds does not throw and returns a canonical
\* American value: at least 100 or at most -100.
C27_EffectiveOddsTotal ==
  EffectiveOddsOnValidPrice =>
    /\ ~feeResult.threw
    /\ IsFinite(feeResult.value)
    /\ RLe(R(100), feeResult.value) \/ RLe(feeResult.value, R(-100))
(***************************************************************************)
(* The validator against the parser (checked under OddsSpec).              *)
(***************************************************************************)
\* C28: for every non-empty raw input and sign preference, getOddsError
\* returns null exactly when parseOdds returns a value; so a bare integer
\* 1..99, which parseOdds reads as Kalshi cents, is not reported as an error.
C28_ValidateAgreesWithParse ==
  (call.fn = "getOddsError" /\ call.raw.present /\ call.raw.chars # <<>>) =>
    (result.isNull <=> ~parseOdds(call.raw, call.signToggleValue).isNull)

====
